---- MODULE Spec2Model ----
(***************************************************************************)
(* Model of src/main.py: the SignalBridge polling loop of the MT5 copier   *)
(* bridge.  One tick reads the live positions, diffs them against the      *)
(* stored previous Counter, writes one signal.json record per unit of      *)
(* difference through a 5 second debounce cache, and only then stores the  *)
(* new Counter.                                                            *)
(***************************************************************************)
EXTENDS Integers, Sequences, FiniteSets, TLC

\* ------------------------------------------------------------------ bounds

\* Longest list of Position records one capture hands to the dedup step.
MaxRecords == 2
\* Largest reading of time.time() (whole seconds) the model explores.
MaxTime == 6
\* Longest list a Counter is built from in the stand-alone Reconciler check.
MaxListLen == 3
\* Longest list of text fragments in the stand-alone Extractor check.
MaxFragments == 3

\* ------------------------------------------------------- program constants

\* self.recent_ttl_seconds = 5.0
recent_ttl_seconds == 5

\* SYMBOL_PATTERN: [A-Z]{3,7}, then an optional three-letter currency code.
SymbolMinLetters == 3
SymbolMaxLetters == 7
CurrencyLetters == 3

\* tokens[idx : idx + 6]
WindowTokens == 6

\* --------------------------------------------------------------- universe

\* Position(symbol, side, lot) values the capture can report; lot in whole lots.
Positions == { <<"EURUSD", "BUY", 1>>, <<"EURUSD", "SELL", 2>> }

Symbols == { p[1] : p \in Positions }

\* All sequences over S of length at most n.
SeqsUpTo(S, n) == UNION { [1..k -> S] : k \in 0..n }

\* ----------------------------------------------------- collections.Counter

\* A Counter is kept as Python keeps it: an insertion-ordered sequence of
\* <<key, count>> pairs with distinct keys.
CounterKeys(c) == { c[j][1] : j \in 1..Len(c) }

\* c[k]: the count of k, 0 for a missing key.
Count(c, k) ==
  IF \E j \in 1..Len(c) : c[j][1] = k
  THEN LET j == CHOOSE j \in 1..Len(c) : c[j][1] = k IN c[j][2]
  ELSE 0

\* Counter.update for one element: increment in place or append at the end.
CounterAdd(c, k) ==
  IF k \in CounterKeys(c)
  THEN [j \in 1..Len(c) |-> IF c[j][1] = k THEN <<k, c[j][2] + 1>> ELSE c[j]]
  ELSE Append(c, <<k, 1>>)

RECURSIVE CounterFrom(_, _)
CounterFrom(c, list) ==
  IF list = <<>> THEN c ELSE CounterFrom(CounterAdd(c, Head(list)), Tail(list))

\* Counter(iterable)
MkCounter(list) == CounterFrom(<<>>, list)

\* A mutated subtraction that keeps the absolute difference.
RECURSIVE CounterSubAbs(_, _)
CounterSubAbs(a, b) ==
  IF a = <<>> THEN <<>>
  ELSE LET k == a[1][1]
           d == a[1][2] - Count(b, k)
           n == IF d < 0 THEN 0 - d ELSE d
       IN  (IF n # 0 THEN << <<k, n>> >> ELSE <<>>) \o CounterSubAbs(Tail(a), b)

\* Counter.__sub__: for each element of a, in a's order, keep count - b[elem]
\* when it is positive.  (The second loop of __sub__, over negative counts of
\* b, never runs: counts built from an iterable are positive.)
RECURSIVE CounterSub(_, _)
CounterSub(a, b) ==
  IF a = <<>> THEN <<>>
  ELSE LET k == a[1][1]
           n == a[1][2] - Count(b, k)
       IN  (IF n > 0 THEN << <<k, n>> >> ELSE <<>>) \o CounterSub(Tail(a), b)

\* ----------------------------------------------------------- json.dumps

\* A payload dict is its insertion-ordered sequence of <<key, value>> items.
\* repr of the float lot as json.dumps prints it.
FloatRepr(lot) ==
  CASE lot = 1 -> "1.0" [] lot = 2 -> "2.0" [] lot = 3 -> "3.0" [] OTHER -> "0.0"

OpenPayload(k) ==
  << <<"action", "OPEN">>, <<"symbol", k[1]>>, <<"side", k[2]>>,
     <<"lot", FloatRepr(k[3])>> >>

ClosePayload(symbol) == << <<"action", "CLOSE">>, <<"symbol", symbol>> >>

\* Every payload _emit_deltas can build.
Payloads ==
  { OpenPayload(k) : k \in Positions } \cup { ClosePayload(s) : s \in Symbols }

\* The dict keys in sorted order.
SortedKeys == <<"action", "lot", "side", "symbol">>

\* sort_keys=True: the items in the order of their keys.
RECURSIVE SortItems(_, _)
SortItems(payload, keys) ==
  IF keys = <<>> THEN <<>>
  ELSE SelectSeq(payload, LAMBDA it : it[1] = Head(keys))
         \o SortItems(payload, Tail(keys))

\* The text json.dumps prints, as a sequence of lexical tokens.
RECURSIVE JsonItems(_, _, _)
JsonItems(items, itemSep, keySep) ==
  IF items = <<>> THEN <<>>
  ELSE << <<items[1][1], keySep, items[1][2]>> >>
         \o (IF Len(items) > 1 THEN << <<itemSep>> >> ELSE <<>>)
         \o JsonItems(Tail(items), itemSep, keySep)

JsonDumps(items, itemSep, keySep) ==
  << <<"{">> >> \o JsonItems(items, itemSep, keySep) \o << <<"}">> >>

\* A mutated signature keyed on the symbol alone.
SignatureSymbolOnly(payload) ==
  JsonDumps(SelectSeq(payload, LAMBDA it : it[1] = "symbol"), ", ", ": ")

\* signature = json.dumps(payload, sort_keys=True)
Signature(payload) == JsonDumps(SortItems(payload, SortedKeys), ", ", ": ")

\* json.dumps(payload, separators=(",", ":"))
Compact(payload) == JsonDumps(payload, ",", ":")

\* What a reader finds at a path: nothing, a whole text, or what a write that
\* failed part-way left of a text (some proper prefix of it, possibly empty).
NoFile == [kind |-> "absent", text |-> <<>>]
Whole(text) == [kind |-> "whole", text |-> text]
Cut(text) == [kind |-> "cut", text |-> text]

\* ------------------------------------------------------------ extraction

\* The lists of Position records one capture can produce before the dedup.
RecordLists == SeqsUpTo(Positions, MaxRecords)

\* A mutated dedup that returns the records as they came.
UniqueKeepAll(records) == records

\* _extract_positions_from_texts, lines 155-162: the first occurrence of each
\* (symbol, side, lot), in order.
RECURSIVE Unique(_)
Unique(records) ==
  IF records = <<>> THEN <<>>
  ELSE LET init == Unique(SubSeq(records, 1, Len(records) - 1))
           r    == records[Len(records)]
       IN  IF \E j \in 1..Len(init) : init[j] = r THEN init ELSE Append(init, r)

\* _read_live_positions: the XML records, or the OCR records when there are
\* none, counted by (symbol, side, lot).
LivePositions(xml, ocr) ==
  LET positions == IF Unique(xml) # <<>> THEN Unique(xml) ELSE Unique(ocr)
  IN  MkCounter(positions)

\* -------------------------------------------------------------- reconcile

\* for key, count in counter.items(): for _ in range(count): one payload.
RECURSIVE Repeat(_, _)
Repeat(x, n) == IF n <= 0 THEN <<>> ELSE <<x>> \o Repeat(x, n - 1)

RECURSIVE OpenEvents(_)
OpenEvents(opens) ==
  IF opens = <<>> THEN <<>>
  ELSE Repeat(OpenPayload(opens[1][1]), opens[1][2]) \o OpenEvents(Tail(opens))

RECURSIVE CloseEvents(_)
CloseEvents(closes) ==
  IF closes = <<>> THEN <<>>
  ELSE Repeat(ClosePayload(closes[1][1][1]), closes[1][2])
         \o CloseEvents(Tail(closes))

\* A mutated reconciler that runs the closes loop before the opens loop.
EmitListClosesFirst(current, prev) ==
  CloseEvents(CounterSub(prev, current)) \o OpenEvents(CounterSub(current, prev))

\* _emit_deltas, lines 182-198: the payloads in the order they are written.
EmitList(current, prev) ==
  OpenEvents(CounterSub(current, prev)) \o CloseEvents(CounterSub(prev, current))

\* --------------------------------------------------------- debounce cache

\* A mutated prune with a strict comparison.
PruneStrict(recent, now) ==
  [s \in { x \in DOMAIN recent : now - recent[x] < recent_ttl_seconds }
     |-> recent[s]]

\* A mutated prune that evicts nothing.
PruneKeepAll(recent, now) == recent

\* _write_signal, lines 207-209.
Prune(recent, now) ==
  [s \in { x \in DOMAIN recent : now - recent[x] <= recent_ttl_seconds }
     |-> recent[s]]

\* recent_signals[signature] = now
Put(recent, sig, now) ==
  [s \in DOMAIN recent \cup {sig} |-> IF s = sig THEN now ELSE recent[s]]

EmptyMap == [s \in {} |-> 0]

\* How a tick ended; sig is the signature of the payload whose publish raised,
\* evs the payload list of that tick and wrote the texts it had written.
Outcome(status) ==
  [status |-> status, sig |-> <<>>, evs |-> <<>>, wrote |-> <<>>]
PublishFailed(sig) == [Outcome("publish_failed") EXCEPT !.sig = sig]

\* ------------------------------------------------------------------ state

VARIABLES
  pc,               \* where run() is: "poll", "emit", "replace", "sleep"
  prev_positions,   \* self.prev_positions
  recent_signals,   \* self.recent_signals
  current,          \* current_positions of the tick in progress
  events,           \* the payloads _emit_deltas iterates over in this tick
  idx,              \* index in events of the next payload to write
  now,              \* now of the _write_signal call in progress
  signal_file,      \* content of C:\bridge\signal.json
  temp_file,        \* content of C:\bridge\signal.tmp
  clock,            \* time.time()
  lastTick,         \* history: how the last finished tick ended and, when a
                    \*   publish failed in it, that payload's signature, the
                    \*   tick's payload list and the texts it had written
  lastGood,         \* history: current of the last tick that ended "ok"
  written,          \* history: texts put in signal.json by the latest tick
  lastPub,          \* history: signature -> now of its latest publish
  scenario,         \* history: how many ticks in a row, from the start and
                    \*   with no failure, observed {EURUSD BUY 1.0}, {}, {}
                    \*   (4: the third saw {EURUSD BUY 1.0}); -1 otherwise
  texts,            \* argument of _extract_positions_from_texts
  extracted         \* the list that call returned

vars ==
  << pc, prev_positions, recent_signals, current, events, idx, now,
     signal_file, temp_file, clock, lastTick, lastGood, written, lastPub,
     scenario, texts, extracted >>

Init ==
  /\ pc = "poll"
  /\ prev_positions = <<>>
  /\ recent_signals = EmptyMap
  /\ current = <<>>
  /\ events = <<>>
  /\ idx = 1
  /\ now = 0
  /\ signal_file = NoFile
  /\ temp_file = NoFile
  /\ clock = 0
  /\ lastTick = Outcome("none")
  /\ lastGood = <<>>
  /\ written = <<>>
  /\ lastPub = EmptyMap
  /\ scenario = 0
  /\ texts = <<>>
  /\ extracted = <<>>

\* ---------------------------------------------------------------- actions

\* The record of a tick that ends with the publish of events[idx] raising.
FailedTick ==
  [PublishFailed(Signature(events[idx])) EXCEPT !.evs = events,
                                                !.wrote = written]

\* The end-to-end scenario's snapshots, tick by tick.
ScenarioSnapshot(n) ==
  IF n = 1 THEN MkCounter(<< <<"EURUSD", "BUY", 1>> >>) ELSE <<>>

\* The scenario goes on while each tick observes the next of its snapshots;
\* 4 stands for its variant whose third tick sees the position open again.
ScenarioAfterCapture(cur) ==
  IF scenario \in 0..2 /\ cur = ScenarioSnapshot(scenario + 1)
  THEN scenario + 1
  ELSE IF scenario = 2 /\ cur = ScenarioSnapshot(1) THEN 4 ELSE -1

\* A mutated capture step that stores the new Counter before the writes.
ReadLivePositionsStoreEarly ==
  /\ pc = "poll"
  /\ \E xml \in RecordLists :
       \E ocr \in (IF Unique(xml) # <<>> THEN {<<>>} ELSE RecordLists) :
       /\ current' = LivePositions(xml, ocr)
       /\ events' = EmitList(current', prev_positions)
       /\ scenario' = ScenarioAfterCapture(current')
  /\ prev_positions' = current'
  /\ idx' = 1
  /\ pc' = "emit"
  /\ UNCHANGED << texts, extracted >>
  /\ UNCHANGED << recent_signals, now, signal_file, temp_file, clock, lastTick,
                  lastGood, written, lastPub >>

\* run(), lines 62-63: _read_live_positions returns and _emit_deltas computes
\* opens and closes (lines 182-183).
ReadLivePositions ==
  /\ pc = "poll"
  /\ \E xml \in RecordLists :
       \E ocr \in (IF Unique(xml) # <<>> THEN {<<>>} ELSE RecordLists) :
       /\ current' = LivePositions(xml, ocr)
       /\ events' = EmitList(current', prev_positions)
       /\ scenario' = ScenarioAfterCapture(current')
  /\ idx' = 1
  /\ pc' = "emit"
  /\ UNCHANGED << texts, extracted >>
  /\ UNCHANGED << prev_positions, recent_signals, now, signal_file, temp_file,
                  clock, lastTick, lastGood, written, lastPub >>

\* A mutated failure path that takes a failed capture for an empty screen.
ReadLivePositionsRaisesAsEmpty ==
  /\ pc = "poll"
  /\ pc' = "sleep"
  /\ lastTick' = Outcome("capture_failed")
  /\ prev_positions' = <<>>
  /\ scenario' = -1
  /\ UNCHANGED << texts, extracted >>
  /\ UNCHANGED << recent_signals, current, events, idx, now, signal_file,
                  temp_file, clock, lastGood, written, lastPub >>

\* run(), lines 62 and 64-65: _dump_ui_xml or the XML parser raises; the
\* exception is logged.
ReadLivePositionsRaises ==
  /\ pc = "poll"
  /\ pc' = "sleep"
  /\ lastTick' = Outcome("capture_failed")
  /\ scenario' = -1
  /\ UNCHANGED << texts, extracted >>
  /\ UNCHANGED << prev_positions, recent_signals, current, events, idx, now,
                  signal_file, temp_file, clock, lastGood, written, lastPub >>

\* A mutated debounce that restarts the window of a suppressed signature.
WriteSignalSuppressedRefresh ==
  /\ pc = "emit"
  /\ idx <= Len(events)
  /\ LET pruned == Prune(recent_signals, clock)
     IN  /\ Signature(events[idx]) \in DOMAIN pruned
         /\ recent_signals' = Put(pruned, Signature(events[idx]), clock)
  /\ idx' = idx + 1
  /\ UNCHANGED << texts, extracted >>
  /\ UNCHANGED << pc, prev_positions, current, events, now, signal_file,
                  temp_file, clock, lastTick, lastGood, written, lastPub,
                  scenario >>

\* _write_signal, lines 203-212: the signature is in the pruned cache.
WriteSignalSuppressed ==
  /\ pc = "emit"
  /\ idx <= Len(events)
  /\ LET pruned == Prune(recent_signals, clock)
     IN  /\ Signature(events[idx]) \in DOMAIN pruned
         /\ recent_signals' = pruned
  /\ idx' = idx + 1
  /\ UNCHANGED << texts, extracted >>
  /\ UNCHANGED << pc, prev_positions, current, events, now, signal_file,
                  temp_file, clock, lastTick, lastGood, written, lastPub,
                  scenario >>

\* _write_signal, lines 203-215: the signature is not cached and the compact
\* text is written to signal.tmp.
WriteSignalTemp ==
  /\ pc = "emit"
  /\ idx <= Len(events)
  /\ LET pruned == Prune(recent_signals, clock)
     IN  /\ Signature(events[idx]) \notin DOMAIN pruned
         /\ recent_signals' = pruned
  /\ now' = clock
  /\ temp_file' = Whole(Compact(events[idx]))
  /\ pc' = "replace"
  /\ UNCHANGED << texts, extracted >>
  /\ UNCHANGED << prev_positions, current, events, idx, signal_file, clock,
                  lastTick, lastGood, written, lastPub, scenario >>

\* A mutated publisher that writes signal.json in place.
WriteSignalInPlaceRaises ==
  /\ pc = "emit"
  /\ idx <= Len(events)
  /\ LET pruned == Prune(recent_signals, clock)
     IN  /\ Signature(events[idx]) \notin DOMAIN pruned
         /\ recent_signals' = pruned
  /\ signal_file' \in {signal_file, Cut(Compact(events[idx]))}
  /\ pc' = "sleep"
  /\ lastTick' = FailedTick
  /\ current' = <<>> /\ events' = <<>> /\ idx' = 1 /\ now' = 0
  /\ written' = <<>>
  /\ scenario' = -1
  /\ UNCHANGED << texts, extracted >>
  /\ UNCHANGED << prev_positions, temp_file, clock, lastGood, lastPub >>

\* A mutated debounce that caches the signature before the write.
WriteSignalTempRaisesCached ==
  /\ pc = "emit"
  /\ idx <= Len(events)
  /\ LET pruned == Prune(recent_signals, clock)
     IN  /\ Signature(events[idx]) \notin DOMAIN pruned
         /\ recent_signals' = Put(pruned, Signature(events[idx]), clock)
  /\ temp_file' \in {temp_file, Cut(Compact(events[idx]))}
  /\ pc' = "sleep"
  /\ lastTick' = FailedTick
  /\ current' = <<>> /\ events' = <<>> /\ idx' = 1 /\ now' = 0
  /\ written' = <<>>
  /\ scenario' = -1
  /\ UNCHANGED << texts, extracted >>
  /\ UNCHANGED << prev_positions, signal_file, clock, lastGood, lastPub >>

\* A mutated failure path that empties the debounce cache when a write raises.
WriteSignalTempRaisesClearsCache ==
  /\ pc = "emit"
  /\ idx <= Len(events)
  /\ Signature(events[idx]) \notin DOMAIN Prune(recent_signals, clock)
  /\ recent_signals' = EmptyMap
  /\ temp_file' \in {temp_file, Cut(Compact(events[idx]))}
  /\ pc' = "sleep"
  /\ lastTick' = FailedTick
  /\ current' = <<>> /\ events' = <<>> /\ idx' = 1 /\ now' = 0
  /\ written' = <<>>
  /\ scenario' = -1
  /\ UNCHANGED << texts, extracted >>
  /\ UNCHANGED << prev_positions, signal_file, clock, lastGood, lastPub >>

\* _write_signal, line 215 raises: signal.tmp is left as it was or holds a
\* cut text; the exception ends _emit_deltas (its locals are
\* gone) and is logged by run(), lines 64-65.
WriteSignalTempRaises ==
  /\ pc = "emit"
  /\ idx <= Len(events)
  /\ LET pruned == Prune(recent_signals, clock)
     IN  /\ Signature(events[idx]) \notin DOMAIN pruned
         /\ recent_signals' = pruned
  /\ temp_file' \in {temp_file, Cut(Compact(events[idx]))}
  /\ pc' = "sleep"
  /\ lastTick' = FailedTick
  /\ current' = <<>> /\ events' = <<>> /\ idx' = 1 /\ now' = 0
  /\ written' = <<>>
  /\ scenario' = -1
  /\ UNCHANGED << texts, extracted >>
  /\ UNCHANGED << prev_positions, signal_file, clock, lastGood, lastPub >>

\* A mutated publisher that appends each record to signal.json.
OsReplaceAppend ==
  /\ pc = "replace"
  /\ signal_file' = Whole(signal_file.text \o temp_file.text)
  /\ temp_file' = NoFile
  /\ recent_signals' = Put(recent_signals, Signature(events[idx]), now)
  /\ lastPub' = Put(lastPub, Signature(events[idx]), now)
  /\ written' = Append(written, temp_file.text)
  /\ idx' = idx + 1
  /\ now' = 0
  /\ pc' = "emit"
  /\ UNCHANGED << texts, extracted >>
  /\ UNCHANGED << prev_positions, current, events, clock, lastTick, lastGood,
                  scenario >>

\* _write_signal, lines 216-218: signal.tmp replaces signal.json in one step
\* and the signature is cached.
OsReplace ==
  /\ pc = "replace"
  /\ signal_file' = temp_file
  /\ temp_file' = NoFile
  /\ recent_signals' = Put(recent_signals, Signature(events[idx]), now)
  /\ lastPub' = Put(lastPub, Signature(events[idx]), now)
  /\ written' = Append(written, temp_file.text)
  /\ idx' = idx + 1
  /\ now' = 0
  /\ pc' = "emit"
  /\ UNCHANGED << texts, extracted >>
  /\ UNCHANGED << prev_positions, current, events, clock, lastTick, lastGood,
                  scenario >>

\* A mutated driver loop that does not catch the exception of os.replace.
OsReplaceRaisesUncaught ==
  /\ pc = "replace"
  /\ pc' = "exited"
  /\ lastTick' = FailedTick
  /\ current' = <<>> /\ events' = <<>> /\ idx' = 1 /\ now' = 0
  /\ written' = <<>>
  /\ scenario' = -1
  /\ UNCHANGED << texts, extracted >>
  /\ UNCHANGED << prev_positions, recent_signals, signal_file, temp_file,
                  clock, lastGood, lastPub >>

\* _write_signal, line 216 raises: both files stay as they are; the exception
\* ends _emit_deltas and is logged by run(), lines 64-65.
OsReplaceRaises ==
  /\ pc = "replace"
  /\ pc' = "sleep"
  /\ lastTick' = FailedTick
  /\ current' = <<>> /\ events' = <<>> /\ idx' = 1 /\ now' = 0
  /\ written' = <<>>
  /\ scenario' = -1
  /\ UNCHANGED << texts, extracted >>
  /\ UNCHANGED << prev_positions, recent_signals, signal_file, temp_file,
                  clock, lastGood, lastPub >>

\* _emit_deltas, line 200, after both loops; the tick is over.
StorePrevPositions ==
  /\ pc = "emit"
  /\ idx > Len(events)
  /\ prev_positions' = current
  /\ lastGood' = current
  /\ lastTick' = Outcome("ok")
  /\ pc' = "sleep"
  /\ current' = <<>> /\ events' = <<>> /\ idx' = 1
  /\ written' = <<>>
  /\ UNCHANGED << texts, extracted >>
  /\ UNCHANGED << recent_signals, now, signal_file, temp_file, clock, lastPub,
                  scenario >>

\* run(), line 66: time.sleep(POLL_SECONDS) returns.
Sleep ==
  /\ pc = "sleep"
  /\ pc' = "poll"
  /\ UNCHANGED << texts, extracted >>
  /\ UNCHANGED << prev_positions, recent_signals, current, events, idx, now,
                  signal_file, temp_file, clock, lastTick, lastGood, written,
                  lastPub, scenario >>

\* The wall clock moves on, at any point of the loop.
TimePasses ==
  /\ clock < MaxTime
  /\ clock' = clock + 1
  /\ UNCHANGED << texts, extracted >>
  /\ UNCHANGED << pc, prev_positions, recent_signals, current, events, idx,
                  now, signal_file, temp_file, lastTick, lastGood, written,
                  lastPub, scenario >>

Next ==
  \/ ReadLivePositions
  \/ ReadLivePositionsRaises
  \/ WriteSignalSuppressed
  \/ WriteSignalTemp
  \/ WriteSignalTempRaises
  \/ OsReplace
  \/ OsReplaceRaises
  \/ StorePrevPositions
  \/ Sleep
  \/ TimePasses

Spec == Init /\ [][Next]_vars

\* time.sleep returns and the while True loop goes round again.
LiveSpec == Init /\ [][Next]_vars /\ WF_vars(Sleep)

\* ------------------------------------------- the Reconciler on its own

\* Counters of any counts, as Counter(iterable) builds them.
Counters == { MkCounter(l) : l \in SeqsUpTo(Positions, MaxListLen) }

InitReconcile ==
  /\ pc = "reconcile"
  /\ prev_positions \in Counters
  /\ current \in Counters
  /\ recent_signals = EmptyMap
  /\ events = <<>>
  /\ idx = 1
  /\ now = 0
  /\ signal_file = NoFile
  /\ temp_file = NoFile
  /\ clock = 0
  /\ lastTick = Outcome("none")
  /\ lastGood = <<>>
  /\ written = <<>>
  /\ lastPub = EmptyMap
  /\ scenario = -1
  /\ texts = <<>>
  /\ extracted = <<>>

\* _emit_deltas, lines 182-198, without the writes: the payloads in order.
Reconcile ==
  /\ pc = "reconcile"
  /\ events' = EmitList(current, prev_positions)
  /\ pc' = "reconciled"
  /\ UNCHANGED << texts, extracted >>
  /\ UNCHANGED << prev_positions, recent_signals, current, idx, now,
                  signal_file, temp_file, clock, lastTick, lastGood, written,
                  lastPub, scenario >>

NextReconcile == Reconcile

SpecReconcile == InitReconcile /\ [][NextReconcile]_vars

\* --------------------------------------------- the Extractor on its own

\* A text is a sequence of lexemes: the words (runs of letters), the numbers,
\* the punctuation that the patterns skip (":" "=") and the separators that
\* line 148 splits on (newline | , ;); blanks between lexemes are not kept.
Word(w) == <<"word", w>>
Num(d) == <<"num", d>>
Punct(c) == <<"punct", c>>
Separator(c) == <<"sep", c>>

\* The texts of one UI element the capture can hand over.
Fragments ==
  { << Word("GBPUSD") >>,
    << Word("SELL") >>,
    << Word("lot"), Punct(":"), Num("2") >>,
    << Word("lot"), Punct(":"), Num("0") >>,
    << Word("EURUSD"), Word("BUY"), Word("lot"), Punct(":"), Num("1.0") >>,
    << Word("GBPUSD"), Separator(","), Word("SELL") >> }

\* str.upper() of a word.
Upper(w) == IF w = "lot" THEN "LOT" ELSE w

\* Number of letters of an upper-case word.
Letters(u) ==
  CASE u \in {"GBPUSD", "EURUSD"} -> 6
    [] u = "SELL" -> 4
    [] u \in {"BUY", "LOT"} -> 3

\* The word ends in USD, JPY, EUR, GBP, AUD, NZD, CHF or CAD.
EndsInCurrency(u) == u \in {"GBPUSD", "EURUSD"}

\* float() of a number.
ParseFloat(d) == CASE d = "0" -> 0 [] d = "1.0" -> 1 [] d = "2" -> 2

\* text.upper()
UpperText(text) ==
  [i \in 1..Len(text) |->
     IF text[i][1] = "word" THEN Word(Upper(text[i][2])) ELSE text[i]]

\* SYMBOL_PATTERN matches a whole word of 3 to 7 capital letters, or of 3 to
\* 7 capital letters and a currency code.
IsSymbolMatch(lexeme) ==
  /\ lexeme[1] = "word"
  /\ LET n == Letters(lexeme[2])
     IN  \/ n \in SymbolMinLetters..SymbolMaxLetters
         \/ /\ EndsInCurrency(lexeme[2])
            /\ n - CurrencyLetters \in SymbolMinLetters..SymbolMaxLetters

\* SIDE_PATTERN matches the word BUY or SELL.
IsSideMatch(lexeme) == lexeme[1] = "word" /\ lexeme[2] \in {"BUY", "SELL"}

\* LOT_PATTERN matches at a run of digits, whatever comes before it.
IsLotMatch(lexeme) == lexeme[1] = "num"

\* pattern.search(text), given the positions at which the pattern matches:
\* the leftmost of them, 0 for None.
Search(found) ==
  IF found = {} THEN 0 ELSE CHOOSE i \in found : \A j \in found : i <= j

\* _extract_single_record: the list of the one Position, or the empty list
\* for None.
ExtractSingleRecord(text) ==
  LET upper == UpperText(text)
      symbol_match ==
        Search({ i \in 1..Len(upper) : IsSymbolMatch(upper[i]) })
      side_match == Search({ i \in 1..Len(upper) : IsSideMatch(upper[i]) })
      lot_match == Search({ i \in 1..Len(text) : IsLotMatch(text[i]) })
  IN  IF symbol_match = 0 \/ side_match = 0 \/ lot_match = 0 THEN <<>>
      ELSE LET lot == ParseFloat(text[lot_match][2])
           IN  IF lot <= 0 THEN <<>>
               ELSE << << upper[symbol_match][2], upper[side_match][2], lot >> >>

\* "\n".join(texts)
RECURSIVE Join(_)
Join(list) ==
  IF list = <<>> THEN <<>>
  ELSE IF Len(list) = 1 THEN list[1]
  ELSE list[1] \o << Separator("\n") >> \o Join(Tail(list))

\* re.split(r"[\n|,;]", joined): the pieces between separators.
RECURSIVE Split(_)
Split(text) ==
  IF text = <<>> THEN << <<>> >>
  ELSE LET rest == Split(Tail(text))
       IN  IF Head(text)[1] = "sep" THEN << <<>> >> \o rest
           ELSE << << Head(text) >> \o rest[1] >> \o Tail(rest)

\* if t.strip()
NotBlank(t) == t # <<>>

\* " ".join(tokens[idx : idx + 6])
RECURSIVE Concat(_)
Concat(list) == IF list = <<>> THEN <<>> ELSE list[1] \o Concat(Tail(list))

WindowText(tokens, i) ==
  LET last == IF i + WindowTokens - 1 <= Len(tokens)
              THEN i + WindowTokens - 1 ELSE Len(tokens)
  IN  Concat(SubSeq(tokens, i, last))

\* The records of the loop of lines 142-145.
RECURSIVE LineRecords(_)
LineRecords(list) ==
  IF list = <<>> THEN <<>>
  ELSE ExtractSingleRecord(list[1]) \o LineRecords(Tail(list))

\* The records of the loop of lines 149-153, from window i on.
RECURSIVE WindowRecords(_, _)
WindowRecords(tokens, i) ==
  IF i > Len(tokens) THEN <<>>
  ELSE ExtractSingleRecord(WindowText(tokens, i)) \o WindowRecords(tokens, i + 1)

\* _extract_positions_from_texts.
ExtractPositionsFromTexts(list) ==
  LET tokens == SelectSeq(Split(Join(list)), NotBlank)
  IN  Unique(LineRecords(list) \o WindowRecords(tokens, 1))

InitExtract ==
  /\ pc = "extract"
  /\ texts \in SeqsUpTo(Fragments, MaxFragments)
  /\ extracted = <<>>
  /\ prev_positions = <<>>
  /\ recent_signals = EmptyMap
  /\ current = <<>>
  /\ events = <<>>
  /\ idx = 1
  /\ now = 0
  /\ signal_file = NoFile
  /\ temp_file = NoFile
  /\ clock = 0
  /\ lastTick = Outcome("none")
  /\ lastGood = <<>>
  /\ written = <<>>
  /\ lastPub = EmptyMap
  /\ scenario = -1

\* One call of _extract_positions_from_texts, lines 137-162.
Extract ==
  /\ pc = "extract"
  /\ extracted' = ExtractPositionsFromTexts(texts)
  /\ pc' = "extracted"
  /\ UNCHANGED << prev_positions, recent_signals, current, events, idx, now,
                  signal_file, temp_file, clock, lastTick, lastGood, written,
                  lastPub, scenario, texts >>

NextExtract == Extract

SpecExtract == InitExtract /\ [][NextExtract]_vars

\* ------------------------------------------------------------- properties

Max(a, b) == IF a >= b THEN a ELSE b

RECURSIVE SetSum(_, _)
SetSum(f, S) ==
  IF S = {} THEN 0
  ELSE LET x == CHOOSE x \in S : TRUE IN f[x] + SetSum(f, S \ {x})

\* How many times x occurs in seq.
Occurrences(seq, x) == Cardinality({ j \in 1..Len(seq) : seq[j] = x })

Range(seq) == { seq[j] : j \in 1..Len(seq) }

\* _write_signal is about to be called for events[idx].
WriteCall == pc = "emit" /\ idx <= Len(events)

\* A step of the program out of a WriteCall state: the call's lines 203-215.
WriteCallStep == WriteCall /\ clock' = clock

\* All payloads of the tick have been processed; line 200 comes next.
TickProcessed == pc = "emit" /\ idx > Len(events)

\* A step in which line 215 or line 216 raises.
PublishFailStep ==
  \/ WriteCallStep /\ pc' \notin {"emit", "replace"}
  \/ pc = "replace" /\ pc' \notin {"emit", "replace"}

\* A step in which _read_live_positions raises.
CaptureFailStep == pc = "poll" /\ pc' # "emit" /\ clock' = clock

\* C1: prev_positions is the current Counter of the most recent tick that
\* ended without failure (empty before the first one), in every state: a tick
\* that fails at capture or at a publish leaves it as it was.
C1_PrevIsLastGoodSnapshot == prev_positions = lastGood

\* A publish failed in the last tick, after an earlier tick had stored a
\* non-empty Counter.
C1_Witness ==
  /\ lastTick.status = "publish_failed"
  /\ pc = "sleep"
  /\ prev_positions # <<>>
  /\ signal_file # NoFile

\* C2: signal.json either does not exist or holds the complete compact text of
\* one payload that was published; never an empty or truncated text.
C2_ReaderSeesCompleteRecord ==
  \/ signal_file = NoFile
  \/ \E p \in Payloads :
       /\ Signature(p) \in DOMAIN lastPub
       /\ signal_file = Whole(Compact(p))

\* A write failed part-way and left a truncated signal.tmp while signal.json
\* holds a record.
C2_Witness ==
  /\ temp_file.kind = "cut"
  /\ signal_file.kind = "whole"
  /\ signal_file.text # temp_file.text

\* C3: a call of _write_signal for a payload whose signature was last
\* published at time t writes nothing while now - t <= 5, and goes on to the
\* write (which puts the payload's text in signal.json when it succeeds) when
\* now - t > 5 or the signature was never published.
C3_DebounceWindow ==
  [][ /\ WriteCallStep =>
          LET sig == Signature(events[idx])
          IN  IF sig \in DOMAIN lastPub
                 /\ clock - lastPub[sig] <= recent_ttl_seconds
              THEN /\ pc' = "emit" /\ idx' = idx + 1
                   /\ UNCHANGED << signal_file, temp_file, lastPub >>
              ELSE pc' # "emit"
      /\ (pc = "replace" /\ pc' = "emit") =>
          /\ signal_file' = Whole(Compact(events[idx]))
          /\ lastPub'[Signature(events[idx])] = now
    ]_vars

\* A payload published 6 seconds ago is on its way to signal.json again.
C3_Witness ==
  /\ pc = "replace"
  /\ Signature(events[idx]) \in DOMAIN lastPub
  /\ now - lastPub[Signature(events[idx])] = recent_ttl_seconds + 1

\* C4, as claimed: a call that finds the signature in the pruned cache changes
\* neither signal.json nor the stored timestamp; any other call ends with the
\* cache mapping the signature to now.
C4_Original ==
  [][ /\ (WriteCallStep /\ pc' # "replace") =>
          LET sig == Signature(events[idx])
          IN  IF sig \in DOMAIN Prune(recent_signals, clock)
              THEN /\ signal_file' = signal_file
                   /\ sig \in DOMAIN recent_signals'
                   /\ recent_signals'[sig] = recent_signals[sig]
              ELSE /\ sig \in DOMAIN recent_signals'
                   /\ recent_signals'[sig] = clock
      /\ (pc = "replace" /\ pc' # "replace") =>
          /\ Signature(events[idx]) \in DOMAIN recent_signals'
          /\ recent_signals'[Signature(events[idx])] = now
    ]_vars

\* C4, amended: a call that finds the signature in the pruned cache changes
\* neither signal.json nor the stored timestamp; any other call ends with the
\* cache mapping the signature to now when the write and the replace succeed,
\* and with the signature absent from the cache when one of them raises.
C4_DebounceStep ==
  [][ /\ (WriteCallStep /\ pc' # "replace") =>
          LET sig == Signature(events[idx])
          IN  IF sig \in DOMAIN Prune(recent_signals, clock)
              THEN /\ signal_file' = signal_file
                   /\ sig \in DOMAIN recent_signals'
                   /\ recent_signals'[sig] = recent_signals[sig]
              ELSE sig \notin DOMAIN recent_signals'
      /\ (pc = "replace" /\ pc' # "replace") =>
          LET sig == Signature(events[idx])
          IN  IF pc' = "emit"
              THEN /\ sig \in DOMAIN recent_signals'
                   /\ recent_signals'[sig] = now
              ELSE sig \notin DOMAIN recent_signals'
    ]_vars

\* A call has ended by raising and its signature is not cached, while another
\* signature is.
C4_Witness ==
  /\ lastTick.status = "publish_failed"
  /\ pc = "sleep"
  /\ lastTick.sig \notin DOMAIN recent_signals
  /\ recent_signals # EmptyMap

\* C5: for all Counters A (previous) and B (current) the payload list holds
\* max(0, B[k]-A[k]) OPEN payloads with key k's symbol, side and lot for every
\* key k, and for every symbol as many CLOSE payloads, carrying the symbol
\* alone, as the sum of max(0, A[k]-B[k]) over its keys, and nothing else;
\* adding the opens to A and taking the closes from A gives B's count for
\* every key.
C5_ReconcileCounts ==
  pc = "reconciled" =>
    LET A == prev_positions
        B == current
        excess == [k \in Positions |-> Max(0, Count(B, k) - Count(A, k))]
        lack   == [k \in Positions |-> Max(0, Count(A, k) - Count(B, k))]
        opens  == CounterSub(B, A)
        closes == CounterSub(A, B)
    IN  /\ \A k \in Positions :
             Occurrences(events, OpenPayload(k)) = excess[k]
        /\ \A sym \in Symbols :
             Occurrences(events, ClosePayload(sym))
               = SetSum(lack, { k \in Positions : k[1] = sym })
        /\ Len(events) = SetSum(excess, Positions) + SetSum(lack, Positions)
        /\ \A k \in Positions :
             /\ Count(opens, k) = excess[k]
             /\ Count(closes, k) = lack[k]
             /\ Count(A, k) + Count(opens, k) - Count(closes, k) = Count(B, k)

\* Counters with counts above one on both sides gave opens and closes.
C5_Witness ==
  /\ pc = "reconciled"
  /\ \E k \in Positions : Count(current, k) - Count(prev_positions, k) >= 2
  /\ \E k \in Positions : Count(prev_positions, k) - Count(current, k) >= 2

\* C6: a tick in which _read_live_positions raises changes neither
\* prev_positions nor recent_signals nor signal.json (nor signal.tmp), and
\* prev_positions is still the Counter of the last tick that ended well.
C6_CaptureFailureFrame ==
  [][ CaptureFailStep =>
        /\ UNCHANGED << prev_positions, recent_signals, signal_file, temp_file >>
        /\ prev_positions' = lastGood'
        /\ pc' = "sleep"
    ]_vars

\* A capture failed while positions, cached signatures and a record existed.
C6_Witness ==
  /\ lastTick.status = "capture_failed"
  /\ pc = "sleep"
  /\ prev_positions # <<>>
  /\ recent_signals # EmptyMap
  /\ signal_file # NoFile

\* C7: when a write or the replace raises, control is back in the driver loop,
\* the payload's signature is not in the cache, signal.json holds what it held
\* and prev_positions is unchanged, so the same snapshot gives the same
\* payload list again; and in the next tick that gets past the capture, the
\* first payload with the failed signature is not suppressed by the debounce.
C7_PublishFailureRetry ==
  [][ /\ PublishFailStep =>
          /\ pc' = "sleep"
          /\ lastTick'.status = "publish_failed"
          /\ Signature(events[idx]) \notin DOMAIN recent_signals'
          /\ signal_file' = signal_file
          /\ prev_positions' = prev_positions
          /\ EmitList(current, prev_positions') = events
      /\ ( /\ WriteCallStep
           /\ lastTick.status = "publish_failed"
           /\ Signature(events[idx]) = lastTick.sig
           /\ \A j \in 1..(idx - 1) : Signature(events[j]) # lastTick.sig )
         => pc' # "emit"
    ]_vars

\* The payload whose publish failed in the last tick is being published.
C7_Witness ==
  /\ lastTick.status = "publish_failed"
  /\ pc = "replace"
  /\ Signature(events[idx]) = lastTick.sig
  /\ signal_file # NoFile

\* C8, as claimed, on runs in which no tick has failed: when all payloads of
\* a tick have been processed, an OPEN record was written in this tick for
\* every key that is in current and not in prev_positions, and a CLOSE record
\* for the symbol of every key that is in prev_positions and not in current.
C8_NoLegitimateEventSuppressed ==
  (TickProcessed /\ scenario # -1) =>
    /\ \A k \in CounterKeys(current) \ CounterKeys(prev_positions) :
         Compact(OpenPayload(k)) \in Range(written)
    /\ \A k \in CounterKeys(prev_positions) \ CounterKeys(current) :
         Compact(ClosePayload(k[1])) \in Range(written)

\* The texts of the scenario's two records.
OpenEurusdText ==
  << <<"{">>, <<"action", ":", "OPEN">>, <<",">>, <<"symbol", ":", "EURUSD">>,
     <<",">>, <<"side", ":", "BUY">>, <<",">>, <<"lot", ":", "1.0">>, <<"}">> >>

CloseEurusdText ==
  << <<"{">>, <<"action", ":", "CLOSE">>, <<",">>,
     <<"symbol", ":", "EURUSD">>, <<"}">> >>

\* C9: from the initial state, a tick observing {EURUSD BUY 1.0} writes exactly
\* the OPEN record, a following tick observing nothing writes exactly the
\* CLOSE record, and a third tick observing nothing has no payload, writes
\* nothing, and leaves prev_positions empty and the CLOSE record in
\* signal.json.
C9_EndToEndScenario ==
  /\ (scenario = 1 /\ TickProcessed) => written = << OpenEurusdText >>
  /\ (scenario = 2 /\ TickProcessed) =>
       /\ written = << CloseEurusdText >>
       /\ prev_positions = ScenarioSnapshot(1)
  /\ (scenario = 3 /\ pc = "emit") =>
       /\ events = <<>>
       /\ written = <<>>
  /\ scenario = 3 =>
       /\ pc # "replace"
       /\ prev_positions = <<>>
       /\ signal_file = Whole(CloseEurusdText)

\* The third tick of the scenario has ended.
C9_Witness == scenario = 3 /\ pc = "sleep" /\ lastTick.status = "ok"

\* C10: a step in which the capture, a write or the replace raises ends the
\* tick and leaves the process in the driver loop, with no payload of the tick
\* left to write; between ticks nothing is published or cached; and the loop
\* always goes on from its sleep to the next tick.
C10_FailureAbortsTickOnly ==
  /\ [][ /\ (PublishFailStep \/ CaptureFailStep) =>
             /\ pc' = "sleep"
             /\ events' = <<>>
             /\ UNCHANGED << signal_file, lastPub >>
             /\ DOMAIN recent_signals' \subseteq DOMAIN recent_signals
         /\ pc \in {"sleep", "poll"} =>
             UNCHANGED << signal_file, recent_signals, lastPub >>
       ]_vars
  /\ (pc = "sleep") ~> (pc = "poll")

\* The tick after a failed publish is running.
C10_Witness ==
  /\ lastTick.status = "publish_failed"
  /\ pc = "emit"
  /\ events # <<>>

\* A step in which os.replace returns: the publish of events[idx] succeeds.
PublishStep == pc = "replace" /\ pc' = "emit"

\* C11: signal.json holds exactly the text of the payload published last: a
\* successful publish replaces its whole content by that payload's compact
\* text, and no other step (a suppressed call, a write or replace that raises,
\* a capture, the end of a tick) changes it; so within a tick that has
\* published, it holds the text published last and nothing of the earlier ones.
C11_OutputHoldsLatestEvent ==
  /\ [][ IF PublishStep
         THEN signal_file' = Whole(Compact(events[idx]))
         ELSE signal_file' = signal_file ]_vars
  /\ [](written # <<>> => signal_file = Whole(written[Len(written)]))

\* A tick has published two different records; signal.json holds the second.
C11_Witness ==
  /\ pc = "emit"
  /\ Len(written) = 2
  /\ written[1] # written[2]
  /\ signal_file = Whole(written[2])

\* The cache after a step, against the cache before it, for a call whose now
\* is t: no entry older than the TTL, every entry within the TTL kept as it was.
PrunedAt(t) ==
  /\ \A s \in DOMAIN recent_signals' :
       t - recent_signals'[s] <= recent_ttl_seconds
  /\ \A s \in DOMAIN recent_signals :
       t - recent_signals[s] <= recent_ttl_seconds =>
         /\ s \in DOMAIN recent_signals'
         /\ recent_signals'[s] = recent_signals[s]

\* C12: after every step of a _write_signal call made at time now (the call
\* is suppressed, or goes on to the write, or raises there, or its replace
\* succeeds or raises) the cache has no entry with now - ts > 5, and every
\* entry that had now - ts <= 5 before the step is still there, unchanged.
C12_PruneEvictsExactlyTheOld ==
  [][ /\ WriteCallStep => PrunedAt(clock)
      /\ (pc = "replace" /\ pc' # "replace") => PrunedAt(now)
    ]_vars

\* A call past its prune: a signature published more than 5 seconds before
\* it is gone from the cache, and one published within 5 seconds is kept.
C12_Witness ==
  /\ pc = "replace"
  /\ \E s \in DOMAIN lastPub \ DOMAIN recent_signals :
       now - lastPub[s] > recent_ttl_seconds
  /\ \E s \in DOMAIN recent_signals :
       /\ now - recent_signals[s] <= recent_ttl_seconds
       /\ now - recent_signals[s] >= 1

\* C15: every Counter built from the deduplicated records, hence current and
\* prev_positions in every state, counts each key 0 or 1 times; so the payload
\* list of a tick holds at most one OPEN payload per key, and its CLOSE
\* payloads of a symbol are one for each key of that symbol that went away.
C15_CountsAreZeroOrOne ==
  /\ \A k \in Positions :
       /\ Count(current, k) \in {0, 1}
       /\ Count(prev_positions, k) \in {0, 1}
  /\ pc \in {"emit", "replace"} =>
       /\ \A k \in Positions :
            /\ Occurrences(events, OpenPayload(k)) <= 1
            /\ Count(CounterSub(current, prev_positions), k) <= 1
            /\ Count(CounterSub(prev_positions, current), k) <= 1
       /\ \A sym \in Symbols :
            Occurrences(events, ClosePayload(sym))
              = Cardinality({ k \in CounterKeys(prev_positions)
                                     \ CounterKeys(current) : k[1] = sym })

\* A tick in which two keys of one symbol went away: two CLOSE payloads, one
\* per key.
C15_Witness ==
  /\ pc = "emit"
  /\ idx = 1
  /\ Len(prev_positions) = 2
  /\ Occurrences(events, ClosePayload("EURUSD")) = 2

OpenPayloads == { OpenPayload(k) : k \in Positions }
ClosePayloads == { ClosePayload(sym) : sym \in Symbols }
OpenTexts == { Compact(p) : p \in OpenPayloads }
CloseTexts == { Compact(p) : p \in ClosePayloads }

\* C16: in the payload list of a tick, and among the records the tick has
\* written, no OPEN comes after a CLOSE; so when all payloads of a tick have
\* been processed and a CLOSE record was written in it, signal.json holds a
\* CLOSE record, whatever OPEN records the tick wrote.
C16_OpensBeforeCloses ==
  /\ \A i \in 1..Len(events) : \A j \in 1..Len(events) :
       (i < j /\ events[i] \in ClosePayloads) => events[j] \notin OpenPayloads
  /\ \A i \in 1..Len(written) : \A j \in 1..Len(written) :
       (i < j /\ written[i] \in CloseTexts) => written[j] \notin OpenTexts
  /\ (TickProcessed /\ Range(written) \cap CloseTexts # {}) =>
       /\ signal_file.kind = "whole"
       /\ signal_file.text \in CloseTexts

\* A tick wrote an OPEN record and then a CLOSE record.
C16_Witness ==
  /\ TickProcessed
  /\ Len(written) = 2
  /\ written[1] \in OpenTexts
  /\ written[2] \in CloseTexts
  /\ signal_file.text \in CloseTexts

\* C14, as claimed: when all payloads of a tick have been processed in which
\* two keys of one symbol (differing in side or lot) went away, two CLOSE
\* records of that symbol were written in the tick, one for each key.
C14_TwoClosesTwoPublishes ==
  TickProcessed =>
    \A k1 \in CounterKeys(prev_positions) \ CounterKeys(current) :
      \A k2 \in CounterKeys(prev_positions) \ CounterKeys(current) :
        (k1 # k2 /\ k1[1] = k2[1]) =>
          /\ Occurrences(events, ClosePayload(k1[1])) = 2
          /\ Occurrences(written, Compact(ClosePayload(k1[1]))) = 2

\* The tick in progress retries the diff of a tick that a publish failure
\* ended, and events[idx] is a payload that the failed tick had written.
RetryOfWritten ==
  /\ lastTick.status = "publish_failed"
  /\ events = lastTick.evs
  /\ idx <= Len(events)
  /\ Compact(events[idx]) \in Range(lastTick.wrote)

\* C17, as claimed: a payload that was written in a tick which then failed is
\* not written again by the following tick when that tick retries the same
\* payload list, however much later the retry comes.
C17_Original == [][ PublishStep => ~RetryOfWritten ]_vars

\* C17, amended: when the following tick retries the same payload list, the
\* call for a payload the failed tick had written is suppressed while at most
\* 5 seconds have passed since that payload was last written, and the payload
\* is written again only by a call made more than 5 seconds after it.
C17_RetryWritesOnceWithinTtl ==
  [][ /\ (WriteCallStep /\ RetryOfWritten) =>
          LET sig == Signature(events[idx])
          IN  /\ sig \in DOMAIN lastPub
              /\ clock - lastPub[sig] <= recent_ttl_seconds =>
                    /\ pc' = "emit" /\ idx' = idx + 1
                    /\ UNCHANGED << signal_file, temp_file, written >>
      /\ (PublishStep /\ RetryOfWritten) =>
          now - lastPub[Signature(events[idx])] > recent_ttl_seconds
    ]_vars

\* A retry has skipped its first payload, which the failed tick had written,
\* and is at the payload whose publish failed.
C17_Witness ==
  /\ lastTick.status = "publish_failed"
  /\ pc = "emit"
  /\ events = lastTick.evs
  /\ idx = 2
  /\ written = <<>>
  /\ Compact(events[1]) \in Range(lastTick.wrote)
  /\ Signature(events[2]) = lastTick.sig

\* The symbol, the side and the labelled size as three fragments of their own.
SymbolFragment == << Word("GBPUSD") >>
SideFragment == << Word("SELL") >>
LotFragment == << Word("lot"), Punct(":"), Num("2") >>

\* C13, as claimed: when the list of fragments holds the symbol, the side and
\* the labelled size as three adjacent fragments, in any order of the three,
\* the list the Extractor returns holds the Position (GBPUSD, SELL, 2.0).
C13_WindowRecoversAnyOrder ==
  pc = "extracted" =>
    \A i \in 1..(Len(texts) - 2) :
      { texts[i], texts[i + 1], texts[i + 2] }
          = { SymbolFragment, SideFragment, LotFragment }
        => \E j \in 1..Len(extracted) : extracted[j] = <<"GBPUSD", "SELL", 2>>

====
